---- MODULE Spec2Model ----
(***************************************************************************)
(* Model of library/manageiq_vmdb.py: one invocation of the Ansible module *)
(* manageiq_vmdb.  The module validates its connection parameters, builds  *)
(* a client, resolves the resource reference (vmdb / href) to a request    *)
(* path and then either fetches the object (one GET) or validates and      *)
(* calls an action on it (one GET, then one POST).                         *)
(*                                                                         *)
(* Python values are tagged records: None, Str(<<chars>>), Dict(record).   *)
(* A string is the sequence of its characters; a URL is a sequence of      *)
(* string pieces, so that concatenation is exact.                          *)
(***************************************************************************)
EXTENDS Integers, Sequences, FiniteSets, TLC

VARIABLES params, pc, self_api_url, self_href, self_vmdb,
          requests, get_result, post_result, outcome

vars == <<params, pc, self_api_url, self_href, self_vmdb,
          requests, get_result, post_result, outcome>>

(* ------------------------------ bounds --------------------------------- *)

\* longest href string drawn as input
MaxLen == 4
\* longest "actions" array in a GET response
MaxActions == 2

(* --------------------------- Python values ----------------------------- *)

None == [t |-> "None"]
Str(s) == [t |-> "str", v |-> s]
Dict(d) == [t |-> "dict", v |-> d]
EmptyDict == [k \in {} |-> None]

\* Python truthiness of None, str and dict values
Truthy(x) ==
    CASE x.t = "None" -> FALSE
      [] x.t = "str"  -> Len(x.v) > 0
      [] x.t = "dict" -> DOMAIN x.v # {}

\* a or b
PyOr(a, b) == IF Truthy(a) THEN a ELSE b

\* x in (None, '')
NoneOrEmpty(x) == x = None \/ x = Str(<<>>)

(* ------------------------------ inputs --------------------------------- *)

Alphabet == {"a", ":"}

RECURSIVE StringsUpTo(_)
StringsUpTo(n) ==
    IF n = 0 THEN {<<>>}
    ELSE LET shorter == StringsUpTo(n - 1)
         IN  shorter \cup {Append(s, c) : s \in {x \in shorter : Len(x) = n - 1}, c \in Alphabet}

HrefStrings == StringsUpTo(MaxLen)

\* values an optional string option of manageiq_connection can take
ConnValues == {None, Str(<<>>), Str(<<"x">>)}

AllConnections ==
    [url : ConnValues, username : ConnValues, password : ConnValues, token : ConnValues]

\* connections used when the dispatcher is explored: basic auth, token auth, and
\* one that is rejected
SampleConnections ==
    { [url |-> Str(<<"x">>), username |-> Str(<<"x">>), password |-> Str(<<"x">>), token |-> None],
      [url |-> Str(<<"x">>), username |-> None, password |-> None, token |-> Str(<<"x">>)],
      [url |-> Str(<<"x">>), username |-> Str(<<"x">>), password |-> Str(<<>>), token |-> None] }

\* the href carried by an inline vmdb object
ObjectHref == <<"x", "/api", "/", "vms", "/", "1">>

VmdbValues ==
    { None, Dict(EmptyDict), Dict([id |-> 1]), Dict([id |-> 1, href |-> ObjectHref]) }

HrefValues == {None} \cup {Str(s) : s \in HrefStrings}

ActionNames == {<<"s", "t", "a", "r", "t">>, <<"s", "t", "o", "p">>}

ActionValues == {None, Str(<<>>)} \cup {Str(a) : a \in ActionNames}

\* data is optional: None when the task gives none
DataValues == {None, Dict([state |-> "on"])}

(* -------------------------- remote API answers ------------------------- *)

ActionEntries == {[name |-> a, method |-> "post"] : a \in ActionNames}

RECURSIVE ActionLists(_)
ActionLists(n) ==
    IF n = 0 THEN {<<>>}
    ELSE LET shorter == ActionLists(n - 1)
         IN  shorter \cup {Append(s, e) : s \in {x \in shorter : Len(x) = n - 1}, e \in ActionEntries}

NoResponse == [t |-> "none"]
TransportError == [t |-> "error"]
Json(body) == [t |-> "json", v |-> body]

\* decoded bodies a GET can return: a resource without "actions", resources with
\* an "actions" array, and a resource that has a field called "changed"
GetBodies ==
    {[id |-> 1]}
    \cup {[id |-> 1, actions |-> l] : l \in ActionLists(MaxActions)}
    \cup {[id |-> 1, actions |-> <<>>, changed |-> TRUE]}

GetResponses == {TransportError} \cup {Json(b) : b \in GetBodies}

PostBodies ==
    { [success |-> TRUE, message |-> "done"],
      [success |-> TRUE],
      [success |-> FALSE, message |-> "busy"],
      [success |-> FALSE],
      [message |-> "odd"] }

PostResponses == {TransportError} \cup {Json(b) : b \in PostBodies}

(* ------------------------------ outcomes ------------------------------- *)

Running == [kind |-> "running"]
ExitJson(kwargs) == [kind |-> "exit_json", kwargs |-> kwargs]
FailJson(msg) == [kind |-> "fail_json", msg |-> msg]
Raised(exc) == [kind |-> "exception", exc |-> exc]

(* ---------------------- validate_connection_params --------------------- *)

ErrorStr(arg) == "missing required argument: manageiq_connection[" \o arg \o "]"

RequiredArgs == <<"url", "username", "password">>

\* the for loop of validate_connection_params: fail_json ends the process, so the
\* loop stops at the first argument that is None or ''
RECURSIVE CheckArgs(_, _)
CheckArgs(p, args) ==
    IF args = <<>> THEN <<>>
    ELSE IF NoneOrEmpty(p[Head(args)]) THEN <<ErrorStr(Head(args))>>
    ELSE CheckArgs(p, Tail(args))

\* variant: the password is not required next to url and username
validate_connection_params_no_password(p) ==
    IF (Truthy(p.url) /\ Truthy(p.username)) \/ (Truthy(p.url) /\ Truthy(p.token))
    THEN [ret |-> Dict(p), errors |-> <<>>]
    ELSE [ret |-> None, errors |-> CheckArgs(p, RequiredArgs)]

\* ret is the value returned (None when the function falls off its end); errors
\* are the fail_json messages it emits
validate_connection_params(p) ==
    IF (Truthy(p.url) /\ Truthy(p.username) /\ Truthy(p.password))
       \/ (Truthy(p.url) /\ Truthy(p.token))
    THEN [ret |-> Dict(p), errors |-> <<>>]
    ELSE [ret |-> None, errors |-> CheckArgs(p, RequiredArgs)]

(* ------------------------------ AnsibleModule -------------------------- *)

\* variant: exactly one of the two is not None
required_one_of_exactly_one(p) == (p.vmdb # None) # (p.href # None)

\* required_one_of=[['vmdb', 'href']]: at least one of the two is not None
required_one_of(p) == p.vmdb # None \/ p.href # None

\* the task result's "changed": the module's own value, False when it sets none
Changed(kwargs) == IF "changed" \in DOMAIN kwargs THEN kwargs.changed ELSE FALSE

(* ------------------------------ ManageIQVmdb --------------------------- *)

\* position of the first "::" in s, 0 when there is none
FirstSep(s) ==
    LET hits == {i \in 1..(Len(s) - 1) : s[i] = ":" /\ s[i + 1] = ":"}
    IN  IF hits = {} THEN 0 ELSE CHOOSE i \in hits : \A j \in hits : i <= j

\* item.split("::")
RECURSIVE Split(_)
Split(s) ==
    LET i == FirstSep(s)
    IN  IF i = 0 THEN <<s>>
        ELSE <<SubSeq(s, 1, i - 1)>> \o Split(SubSeq(s, i + 2, Len(s)))

\* variant: the half before "::" is kept instead of the half after it
parse_keeps_collection(item, api_url, href, vmdb) ==
    IF item.t = "dict" THEN
        IF "href" \in DOMAIN vmdb.v
        THEN [api_url |-> vmdb.v.href, href |-> href, raised |-> FALSE]
        ELSE [api_url |-> api_url, href |-> href, raised |-> TRUE]
    ELSE IF item.t = "str" THEN
        LET slug == Split(item.v)
        IN  IF Len(slug) = 2
            THEN [api_url |-> api_url, href |-> Str(slug[1]), raised |-> FALSE]
            ELSE [api_url |-> api_url, href |-> item, raised |-> FALSE]
    ELSE [api_url |-> api_url, href |-> href, raised |-> FALSE]

\* variant: the href of an inline object is appended to the API url
parse_dict_sets_href(item, api_url, href, vmdb) ==
    IF item.t = "dict" THEN
        IF "href" \in DOMAIN vmdb.v
        THEN [api_url |-> api_url, href |-> Str(vmdb.v.href), raised |-> FALSE]
        ELSE [api_url |-> api_url, href |-> href, raised |-> TRUE]
    ELSE IF item.t = "str" THEN
        LET slug == Split(item.v)
        IN  IF Len(slug) = 2
            THEN [api_url |-> api_url, href |-> Str(slug[2]), raised |-> FALSE]
            ELSE [api_url |-> api_url, href |-> item, raised |-> FALSE]
    ELSE [api_url |-> api_url, href |-> href, raised |-> FALSE]

\* parse(item) on an object whose fields are api_url, href and vmdb: the fields
\* afterwards, and whether self._vmdb['href'] raised KeyError
parse(item, api_url, href, vmdb) ==
    IF item.t = "dict" THEN
        IF "href" \in DOMAIN vmdb.v
        THEN [api_url |-> vmdb.v.href, href |-> href, raised |-> FALSE]
        ELSE [api_url |-> api_url, href |-> href, raised |-> TRUE]
    ELSE IF item.t = "str" THEN
        LET slug == Split(item.v)
        IN  IF Len(slug) = 2
            THEN [api_url |-> api_url, href |-> Str(slug[2]), raised |-> FALSE]
            ELSE [api_url |-> api_url, href |-> item, raised |-> FALSE]
    ELSE [api_url |-> api_url, href |-> href, raised |-> FALSE]

post_url(api_url, href) ==
    IF Truthy(href) THEN api_url \o <<"/">> \o href.v ELSE api_url

\* the url that get(alt_url) requests
get_url(alt_url, api_url) == IF Len(alt_url) > 0 THEN alt_url ELSE api_url

\* variant: the name asked for is not compared
exists_always_found(result, path) ==
    IF "actions" \notin DOMAIN result
    THEN [raised |-> TRUE, value |-> FALSE]
    ELSE [raised |-> FALSE, value |-> TRUE]

\* variant: any listed action stands for the one asked for
exists_ignores_name(result, path) ==
    IF "actions" \notin DOMAIN result
    THEN [raised |-> TRUE, value |-> FALSE]
    ELSE [raised |-> FALSE, value |-> Len(result.actions) > 0]

\* variant: result.get('actions', []) in place of result['actions']
exists_missing_is_empty(result, path) ==
    IF "actions" \notin DOMAIN result
    THEN [raised |-> FALSE, value |-> FALSE]
    ELSE LET actions == [i \in 1..Len(result.actions) |-> result.actions[i].name]
         IN  [raised |-> FALSE, value |-> \E i \in 1..Len(actions) : actions[i] = path]

\* exists(path) once the GET has answered with result: result['actions'] raises
\* KeyError when the field is missing, otherwise value is bool(path in actions)
exists(result, path) ==
    IF "actions" \notin DOMAIN result
    THEN [raised |-> TRUE, value |-> FALSE]
    ELSE LET actions == [i \in 1..Len(result.actions) |-> result.actions[i].name]
         IN  [raised |-> FALSE, value |-> \E i \in 1..Len(actions) : actions[i] = path]

\* variant: the body is wrapped the way action wraps its response
get_object_result_wrapped(body) == [changed |-> FALSE, value |-> body]

\* what get_object returns for the decoded body: dict(self.get(...))
get_object_result(body) == body

\* what action returns when the POST answers success
action_result(result) == [changed |-> FALSE, value |-> result]

\* variant: the "success" field is not inspected
post_outcome_ignores_success(result) == ExitJson(action_result(result))

\* how action ends once the POST has answered with result
post_outcome(result) ==
    IF "success" \notin DOMAIN result THEN Raised("KeyError")
    ELSE IF result.success THEN ExitJson(action_result(result))
    ELSE IF "message" \notin DOMAIN result THEN Raised("KeyError")
    ELSE FailJson(result.message)

GetRequest(url) == [method |-> "GET", url |-> url]
PostRequest(url, action, resource) ==
    [method |-> "POST", url |-> url, action |-> action, resource |-> resource]

(* ------------------------------- the run ------------------------------- *)

TypeOK ==
    /\ pc \in {"main", "connect", "vmdb", "dispatch", "post", "done"}
    /\ outcome.kind \in {"running", "exit_json", "fail_json", "exception"}
    /\ (outcome = Running) = (pc # "done")

InitWith(connections) ==
    /\ params \in [manageiq_connection : connections, vmdb : VmdbValues,
                   href : HrefValues, action : ActionValues, data : DataValues]
    /\ pc = "main"
    /\ self_api_url = <<>>
    /\ self_href = None
    /\ self_vmdb = None
    /\ requests = <<>>
    /\ get_result = NoResponse
    /\ post_result = NoResponse
    /\ outcome = Running

Init == InitWith(SampleConnections)

Finish(o) == pc' = "done" /\ outcome' = o

\* main: AnsibleModule(argument_spec, required_one_of)
ModuleInit ==
    /\ pc = "main"
    /\ IF required_one_of(params)
       THEN pc' = "connect" /\ UNCHANGED outcome
       ELSE Finish(FailJson("one of the following is required: vmdb, href"))
    /\ UNCHANGED <<params, self_api_url, self_href, self_vmdb, requests, get_result, post_result>>

\* main: manageiq = ManageIQ(module)
Connect ==
    /\ pc = "connect"
    /\ \E has_client \in BOOLEAN, client_opens \in BOOLEAN :
         LET v == validate_connection_params(params.manageiq_connection)
         IN  IF ~has_client THEN
                 /\ Finish(FailJson("manageiq_client.api is required for this module"))
                 /\ UNCHANGED self_api_url
             ELSE IF v.errors # <<>> THEN
                 /\ Finish(FailJson(v.errors[1]))
                 /\ UNCHANGED self_api_url
             ELSE IF v.ret = None THEN
                 /\ Finish(Raised("TypeError"))
                 /\ UNCHANGED self_api_url
             ELSE IF ~client_opens THEN
                 /\ Finish(FailJson("failed to open connection"))
                 /\ self_api_url' = v.ret.v.url.v \o <<"/api">>
             ELSE
                 /\ pc' = "vmdb"
                 /\ self_api_url' = v.ret.v.url.v \o <<"/api">>
                 /\ UNCHANGED outcome
    /\ UNCHANGED <<params, self_href, self_vmdb, requests, get_result, post_result>>

\* main: vmdb = Vmdb(manageiq)
VmdbInit ==
    /\ pc = "vmdb"
    /\ self_vmdb' = PyOr(params.vmdb, params.href)
    /\ self_href' = None
    /\ pc' = "dispatch"
    /\ UNCHANGED <<params, self_api_url, requests, get_result, post_result, outcome>>

\* main: no action given, vmdb.get_object() and exit_json(**result)
GetObject ==
    /\ pc = "dispatch"
    /\ ~Truthy(params.action)
    /\ LET p == parse(self_vmdb, self_api_url, self_href, self_vmdb)
           url == get_url(post_url(p.api_url, p.href), p.api_url)
       IN  /\ self_api_url' = p.api_url
           /\ self_href' = p.href
           /\ IF p.raised THEN
                  /\ Finish(Raised("KeyError"))
                  /\ UNCHANGED <<requests, get_result>>
              ELSE
                  /\ requests' = Append(requests, GetRequest(url))
                  /\ \E response \in GetResponses :
                       /\ get_result' = response
                       /\ IF response = TransportError
                          THEN Finish(Raised("TransportError"))
                          ELSE Finish(ExitJson(get_object_result(response.v)))
    /\ UNCHANGED <<params, self_vmdb, post_result>>

\* main: vmdb.action() up to the answer of exists(action_string)
ActionExists ==
    /\ pc = "dispatch"
    /\ Truthy(params.action)
    /\ LET p == parse(self_vmdb, self_api_url, self_href, self_vmdb)
           url == get_url(post_url(p.api_url, p.href), p.api_url)
       IN  /\ self_api_url' = p.api_url
           /\ self_href' = p.href
           /\ IF p.raised THEN
                  /\ Finish(Raised("KeyError"))
                  /\ UNCHANGED <<requests, get_result>>
              ELSE
                  /\ requests' = Append(requests, GetRequest(url))
                  /\ \E response \in GetResponses :
                       /\ get_result' = response
                       /\ IF response = TransportError THEN
                              Finish(Raised("TransportError"))
                          ELSE IF exists(response.v, params.action.v).raised THEN
                              Finish(Raised("KeyError"))
                          ELSE IF exists(response.v, params.action.v).value THEN
                              pc' = "post" /\ UNCHANGED outcome
                          ELSE
                              Finish(FailJson("Action not found"))
    /\ UNCHANGED <<params, self_vmdb, post_result>>

\* vmdb.action() from the POST on, and exit_json(**result)
ActionPost ==
    /\ pc = "post"
    /\ requests' = Append(requests,
                          PostRequest(post_url(self_api_url, self_href),
                                      params.action.v, params.data))
    /\ \E response \in PostResponses :
         /\ post_result' = response
         /\ IF response = TransportError THEN
                Finish(Raised("TransportError"))
            ELSE
                Finish(post_outcome(response.v))
    /\ UNCHANGED <<params, self_api_url, self_href, self_vmdb, get_result>>

Next == ModuleInit \/ Connect \/ VmdbInit \/ GetObject \/ ActionExists \/ ActionPost

Spec == Init /\ [][Next]_vars

\* the same run, over every combination of connection parameters and a fixed
\* resource
ConnInit ==
    /\ InitWith(AllConnections)
    /\ params.vmdb = None
    /\ params.href = Str(<<"a">>)
    /\ params.action \in {None, Str(<<"s", "t", "a", "r", "t">>)}

ConnSpec == ConnInit /\ [][Next]_vars

(* ------------------------------- claims -------------------------------- *)

ReadBranch == ~Truthy(params.action)
ActionBranch == Truthy(params.action)

\* the names in the "actions" array of a decoded GET body
ListedNames(body) == {body.actions[i].name : i \in DOMAIN body.actions}

HasPost == \E i \in DOMAIN requests : requests[i].method = "POST"

\* baseUrl: the connection url followed by /api
BaseUrl == params.manageiq_connection.url.v \o <<"/api">>

NonEmpty(x) == x.t = "str" /\ x.v # <<>>

\* number of "::" separators in s, counted from position i, left to right
RECURSIVE CountFrom(_, _)
CountFrom(s, i) ==
    IF i >= Len(s) THEN 0
    ELSE IF s[i] = ":" /\ s[i + 1] = ":" THEN 1 + CountFrom(s, i + 2)
    ELSE CountFrom(s, i + 1)

\* what follows the first "::" found from position i on
RECURSIVE AfterSeparator(_, _)
AfterSeparator(s, i) ==
    IF i >= Len(s) THEN <<>>
    ELSE IF s[i] = ":" /\ s[i + 1] = ":" THEN SubSeq(s, i + 2, Len(s))
    ELSE AfterSeparator(s, i + 1)

\* the suffix the reference string s stands for: the id of a collection::id slug,
\* the whole string otherwise
Suffix(s) == IF CountFrom(s, 1) = 1 THEN AfterSeparator(s, 1) ELSE s

\* C1: when the validation GET lists the action and the POST answers
\* success = true, the run ends in exit_json with changed = true and value equal
\* to the whole POST response body.
C1_ChangedTrueOnSuccess ==
    (/\ pc = "done"
     /\ ActionBranch
     /\ post_result.t = "json"
     /\ "success" \in DOMAIN post_result.v
     /\ post_result.v.success)
    => /\ outcome.kind = "exit_json"
       /\ "value" \in DOMAIN outcome.kwargs
       /\ outcome.kwargs.value = post_result.v
       /\ Changed(outcome.kwargs) = TRUE

\* C2: the connection is accepted iff url, username and password are all
\* non-empty or url and token are both non-empty; otherwise validation fails with
\* exactly one error, naming the first of url, username, password that is None
\* or empty.
C2_Accepted(c) ==
    \/ NonEmpty(c.url) /\ NonEmpty(c.username) /\ NonEmpty(c.password)
    \/ NonEmpty(c.url) /\ NonEmpty(c.token)

C2_FirstMissing(c) ==
    IF ~NonEmpty(c.url) THEN "missing required argument: manageiq_connection[url]"
    ELSE IF ~NonEmpty(c.username) THEN "missing required argument: manageiq_connection[username]"
    ELSE "missing required argument: manageiq_connection[password]"

C2_MissingMessages ==
    { "missing required argument: manageiq_connection[url]",
      "missing required argument: manageiq_connection[username]",
      "missing required argument: manageiq_connection[password]" }

\* validation has run: the client library is there and the run is past Connect
C2_Validated ==
    /\ pc \notin {"main", "connect"}
    /\ outcome # FailJson("manageiq_client.api is required for this module")
    /\ outcome # FailJson("one of the following is required: vmdb, href")

C2_ConnectionValidation ==
    LET c == params.manageiq_connection
        v == validate_connection_params(c)
    IN  /\ C2_Accepted(c) => v.ret = Dict(c) /\ v.errors = <<>>
        /\ ~C2_Accepted(c) => v.ret = None /\ Len(v.errors) = 1
        /\ C2_Validated =>
             IF C2_Accepted(c)
             THEN outcome.kind = "fail_json" => outcome.msg \notin C2_MissingMessages
             ELSE pc = "done" /\ outcome = FailJson(C2_FirstMissing(c)) /\ requests = <<>>

C2_Witness ==
    /\ C2_Validated
    /\ params.manageiq_connection.url = Str(<<"x">>)
    /\ params.manageiq_connection.username = Str(<<>>)
    /\ params.manageiq_connection.password = None
    /\ params.manageiq_connection.token = Str(<<>>)
    /\ outcome = FailJson("missing required argument: manageiq_connection[username]")

\* C3: when the action name is not among the names the validation GET returned,
\* the run ends in failure "Action not found" and no POST is issued.
C3_ActionNotFound ==
    (/\ ActionBranch
     /\ get_result.t = "json"
     /\ "actions" \in DOMAIN get_result.v
     /\ params.action.v \notin ListedNames(get_result.v))
    => /\ pc = "done"
       /\ outcome = FailJson("Action not found")
       /\ ~HasPost
       /\ post_result = NoResponse

C3_Witness ==
    /\ ActionBranch
    /\ get_result.t = "json"
    /\ "actions" \in DOMAIN get_result.v
    /\ ListedNames(get_result.v) # {}
    /\ params.action.v \notin ListedNames(get_result.v)
    /\ outcome = FailJson("Action not found")

\* the read branch has issued its request
C4_ReadIssued == ReadBranch /\ requests # <<>>

C6_SlashAlways ==
    (self_vmdb.t = "str" /\ requests # <<>>)
    => \A i \in DOMAIN requests :
         requests[i].url = BaseUrl \o <<"/">> \o Suffix(self_vmdb.v)

\* C6 amended: for every string reference the request path is baseUrl + "/" +
\* suffix when the suffix is not empty, where the suffix is the id when the
\* string has exactly one "::" and the whole string otherwise; when the suffix
\* is empty the path is baseUrl with nothing appended.
C6_SlashUnlessEmpty ==
    (self_vmdb.t = "str" /\ requests # <<>>)
    => \A i \in DOMAIN requests :
         requests[i].url = IF Suffix(self_vmdb.v) = <<>>
                           THEN BaseUrl
                           ELSE BaseUrl \o <<"/">> \o Suffix(self_vmdb.v)

C6_Witness ==
    /\ self_vmdb = Str(<<"a", ":", ":", "a">>)
    /\ Len(requests) = 2
    /\ requests[2].url = <<"x", "/api", "/", "a">>

\* C7: after parse on an inline object, every GET and POST goes to the object's
\* own href, with nothing appended.
C7_InlineObjectPath ==
    (self_vmdb.t = "dict" /\ requests # <<>>)
    => \A i \in DOMAIN requests : requests[i].url = self_vmdb.v.href

C7_Witness ==
    /\ self_vmdb.t = "dict"
    /\ Len(requests) = 2
    /\ requests[1].method = "GET"
    /\ requests[2].method = "POST"
    /\ requests[2].url = ObjectHref

\* C8: exists(actionName) is true iff the GET response's actions array has an
\* entry with that name; when the response has no actions field the outcome is
\* an error, never false, so it is never reported as "Action not found".
C8_ExistsIffListed ==
    (ActionBranch /\ get_result.t = "json")
    => LET e == exists(get_result.v, params.action.v)
       IN  IF "actions" \notin DOMAIN get_result.v
           THEN /\ e.raised
                /\ pc = "done"
                /\ outcome = Raised("KeyError")
                /\ ~HasPost
           ELSE /\ ~e.raised
                /\ e.value = (params.action.v \in ListedNames(get_result.v))
                /\ (pc = "post" \/ HasPost) = (params.action.v \in ListedNames(get_result.v))

C8_Witness ==
    /\ ActionBranch
    /\ get_result.t = "json"
    /\ "actions" \notin DOMAIN get_result.v
    /\ outcome = Raised("KeyError")

C9_Neither == params.vmdb = None /\ params.href = None
C9_Both == params.vmdb # None /\ params.href # None
C9_Rejected == outcome = FailJson("one of the following is required: vmdb, href")

\* C9 as stated: the resource input is accepted only when exactly one of vmdb
\* and href is supplied; both, or neither, is rejected before any resource is
\* resolved.
C9_ExactlyOne ==
    (pc # "main" /\ (C9_Neither \/ C9_Both))
    => C9_Rejected /\ self_vmdb = None /\ requests = <<>>

\* C9 amended: the resource input is accepted only when at least one of vmdb and
\* href is supplied; an invocation supplying neither is rejected before any
\* resource is resolved, and one supplying both is accepted, the vmdb object
\* being the reference unless it is empty.
C9_AtLeastOne ==
    pc # "main"
    => /\ C9_Rejected = C9_Neither
       /\ C9_Neither => pc = "done" /\ self_vmdb = None /\ self_href = None /\ requests = <<>>
       /\ (pc \in {"dispatch", "post"} \/ requests # <<>>)
          => self_vmdb = IF params.vmdb.t = "dict" /\ DOMAIN params.vmdb.v # {}
                         THEN params.vmdb
                         ELSE params.href

C9_Witness ==
    /\ C9_Both
    /\ pc = "done"
    /\ self_vmdb = params.vmdb
    /\ Len(requests) = 2

C10_Order ==
    /\ Len(requests) <= 2
    /\ \A i \in DOMAIN requests :
         /\ requests[i].method = "GET" => i = 1
         /\ requests[i].method = "POST"
            => /\ i = 2
               /\ requests[1] = GetRequest(requests[2].url)
               /\ get_result.t = "json"
               /\ "actions" \in DOMAIN get_result.v
               /\ requests[2].action \in ListedNames(get_result.v)

C10_Step ==
    /\ \/ requests' = requests
       \/ Len(requests') = Len(requests) + 1 /\ SubSeq(requests', 1, Len(requests)) = requests
    /\ (outcome # Running \/ HasPost) => requests' = requests
    /\ outcome # Running => outcome' = outcome

\* C10: at most two requests are issued, in sequence: a POST only after a GET on
\* the same path whose actions list had the action name, and nothing after the
\* POST or after a failure.
C10_TwoRequestsInSequence == []C10_Order /\ [][C10_Step]_vars

C10_Witness ==
    /\ Len(requests) = 2
    /\ pc = "done"
    /\ outcome.kind = "fail_json"

====
